---- MODULE Spec2Model ----
(***************************************************************************)
(* Model of src/drivers/intel/fsp2_0/memory_init.c: the FSP-M memory-init  *)
(* flow (fsp_memory_init -> do_fsp_memory_init -> do_fsp_post_memory_init).*)
(* One boot is one run of fsp_memory_init; the MRC cache and its TPM hash  *)
(* persist from one boot to the next, and any number of boots may follow   *)
(* one another.                                                            *)
(***************************************************************************)
EXTENDS Integers, Naturals, Sequences, FiniteSets, TLC

(***************************************************************************)
(* Bounds of the model.                                                    *)
(***************************************************************************)
\* training-data blobs are told apart by an identifier 1..MaxPayload
MaxPayload == 2

(***************************************************************************)
(* uint32_t words as bit vectors: bit i of the word is w[i].               *)
(***************************************************************************)
WordBits == 32
BitIdx == 0 .. (WordBits - 1)
Word == [BitIdx -> {0, 1}]

\* the word of a natural number below 2^31
FromNat(n) == [i \in BitIdx |-> IF i >= 31 THEN 0 ELSE (n \div (2 ^ i)) % 2]
\* a & b
BitAnd(a, b) == [i \in BitIdx |-> a[i] * b[i]]
\* a | b
BitOr(a, b) == [i \in BitIdx |-> IF a[i] = 1 \/ b[i] = 1 THEN 1 ELSE 0]
\* ~a
BitNot(a) == [i \in BitIdx |-> 1 - a[i]]
\* a << k, truncated to the word
Shl(a, k) == [i \in BitIdx |-> IF i >= k THEN a[i - k] ELSE 0]
\* the value of bits lo..hi of a word, hi - lo < 31 (used by the properties)
Field(w, lo, hi) ==
  LET RECURSIVE Sum(_)
      Sum(i) == IF i > hi THEN 0 ELSE w[i] * (2 ^ (i - lo)) + Sum(i + 1)
  IN Sum(lo)

AllOnes == [i \in BitIdx |-> 1]

(***************************************************************************)
(* fsp_memory_settings_version (memory_init.c:231-244).  board and soc are *)
(* the uint8_t values of fsp_memory_mainboard_version() and                *)
(* fsp_memory_soc_version().                                               *)
(***************************************************************************)
\* faulty variant: the SoC and mainboard nibbles change places
fsp_memory_settings_version_swapped(rev, platform_versions, board, soc) ==
  IF ~platform_versions THEN rev
  ELSE BitOr(BitOr(BitAnd(rev, BitNot(FromNat(255))),
                   Shl(BitAnd(FromNat(15), FromNat(soc)), 4)),
             Shl(BitAnd(FromNat(15), FromNat(board)), 0))

\* faulty variant: the build-number byte is not cleared before the nibbles are or-ed in
fsp_memory_settings_version_nomask(rev, platform_versions, board, soc) ==
  IF ~platform_versions THEN rev
  ELSE BitOr(BitOr(rev,
                   Shl(BitAnd(FromNat(15), FromNat(board)), 4)),
             Shl(BitAnd(FromNat(15), FromNat(soc)), 0))

\* faulty variant: the SoC version is not folded in
fsp_memory_settings_version_nosoc(rev, platform_versions, board, soc) ==
  IF ~platform_versions THEN rev
  ELSE BitOr(BitAnd(rev, BitNot(FromNat(255))),
             Shl(BitAnd(FromNat(15), FromNat(board)), 4))

fsp_memory_settings_version(rev, platform_versions, board, soc) ==
  IF ~platform_versions THEN rev
  ELSE BitOr(BitOr(BitAnd(rev, BitNot(FromNat(255))),
                   Shl(BitAnd(FromNat(15), FromNat(board)), 4)),
             Shl(BitAnd(FromNat(15), FromNat(soc)), 0))

(***************************************************************************)
(* Values.                                                                 *)
(***************************************************************************)
NULL == 0
Payloads == 1 .. MaxPayload
\* a cache entry: its version tag and payload, and (for the record only) the
\* header revision and hook values of the boot that stored it
NoEntry == [present |-> FALSE, version |-> FromNat(0), payload |-> NULL,
            rev |-> FromNat(0), board |-> 0, soc |-> 0]

\* FSP status codes returned by FspMemoryInit
StatusCodes == {"FSP_SUCCESS", "FSP_DEVICE_ERROR", "FSP_STATUS_RESET_REQUIRED_COLD"}

\* ModuleHeader.revision values of the module images a boot may load
Revisions == {FromNat(5), FromNat(261)}
\* uint8_t values <<mainboard, SoC>> the two version hooks may return in a boot
HookValues == {<<2, 9>>, <<18, 9>>, <<9, 9>>, <<2, 2>>}

\* Linker symbols of the romstage address space (addresses scaled down).
Layout == [car_region_start |-> 4, car_unallocated_start |-> 8,
           car_region_end |-> 12, program |-> 13, eprogram |-> 15]
\* uintptr_t width of the scaled-down address space
AddrBits == 4
AddrMod == 2 ^ AddrBits
\* sizeof(temp_ram), CONFIG_FSP_TEMP_RAM_SIZE scaled down
TempRamSize == 8
\* StackSize defaults found in the UPD area of the module image
StackSizes == {4, 6}
\* CONFIG_FSP_M_ADDR and image size of a non-XIP module
FspmImages == {[begin |-> 0, size |-> 3], [begin |-> 7, size |-> 2]}
\* every address of the address space
Addr == 0 .. (AddrMod - 1)

\* The build options read at more than one place of the flow.  The options
\* read at one place only (FSP_M_XIP, FSP_USES_CB_STACK, HAS_RECOVERY_MRC_CACHE,
\* HAVE_ACPI_RESUME) are drawn where they are read.
Configs == [CACHE_MRC_SETTINGS : BOOLEAN,
            FSP2_0_USES_TPM_MRC_HASH : BOOLEAN,
            FSP_PLATFORM_MEMORY_SETTINGS_VERSIONS : BOOLEAN,
            ENV_CACHE_AS_RAM : BOOLEAN]

VARIABLES
  cfg,         \* CONFIG() options of the build
  mrc_cache,   \* the stored MRC_TRAINING_DATA entry (persists across boots)
  tpm_hash,    \* payload the TPM MRC hash is bound to, NULL if none
  pc,          \* position of the boot flow
  s3wake,      \* argument of fsp_memory_init
  hdr,         \* context.header and the values of the platform version hooks
  memmap,      \* context.memmap
  fsp_version, \* fsp_version of do_fsp_memory_init
  arch_upd,    \* fspm_upd.FspmArchUpd
  status,      \* status returned by FspMemoryInit
  hob,         \* training-data HOB the module produced, NULL if none
  cbmem,       \* state of the persistent memory area
  calls,       \* how often each external operation was called in this boot
  log          \* what happened in this boot: how fsp_fill_mrc_cache came to its
               \* result and the payload its lookup returned, the destination
               \* fspm_get_dest accepted, the validation error that was raised,
               \* how the stack was placed, whether recovery mode forced a
               \* retraining, CONFIG(HAVE_ACPI_RESUME) when the recovery of
               \* cbmem failed, the result of the base check, whether the
               \* training data was stored, the flag the hand-off was
               \* recorded with

vars == <<cfg, mrc_cache, tpm_hash, pc, s3wake, hdr, memmap, fsp_version,
          arch_upd, status, hob, cbmem, calls, log>>

NoCalls == [fsp_raminit |-> 0, stash |-> 0, update_hash |-> 0, lookup |-> 0,
            verify |-> 0, callback |-> 0, handoff |-> 0, cbmem_empty |-> 0,
            cbmem_recover |-> 0, full_reset |-> 0, setup_mma |-> 0,
            find_reserved |-> 0, save |-> 0]
NoHdr == [fsp_revision |-> FromNat(0), board |-> 0, soc |-> 0]
NoBase == [kind |-> "unset", addr |-> 0]
UnsetUpd == [StackBase |-> NoBase, StackSize |-> 0, NvsBufferPtr |-> NULL,
             BootMode |-> "unset"]
NoImage == [begin |-> 0, size |-> 0]
NoLog == [cache |-> "none", data |-> NULL, fspm |-> NoImage, fault |-> "none",
          shared |-> FALSE, stack |-> "none", forced |-> FALSE,
          acpi_resume |-> FALSE, base |-> "unchecked", stored |-> FALSE,
          handoff |-> "none"]

Terminal == {"done", "reset", "halt"}

\* the per-boot state at the entry of fsp_memory_init
BootStart(wake) ==
  /\ pc' = "start"
  /\ s3wake' = wake
  /\ hdr' = NoHdr
  /\ memmap' = {}
  /\ fsp_version' = FromNat(0)
  /\ arch_upd' = UnsetUpd
  /\ status' = "none"
  /\ hob' = NULL
  /\ cbmem' = "none"
  /\ calls' = NoCalls
  /\ log' = NoLog

Init ==
  /\ cfg \in Configs
  /\ mrc_cache = NoEntry
  /\ tpm_hash = NULL
  /\ pc = "start"
  /\ s3wake \in BOOLEAN
  /\ hdr = NoHdr
  /\ memmap = {}
  /\ fsp_version = FromNat(0)
  /\ arch_upd = UnsetUpd
  /\ status = "none"
  /\ hob = NULL
  /\ cbmem = "none"
  /\ calls = NoCalls
  /\ log = NoLog

(***************************************************************************)
(* External operations of the repository whose code is outside src/.       *)
(***************************************************************************)
\* memranges_insert(ranges, base, size, tag): records [base, base + size)
memranges_insert(ranges, base, size) ==
  IF size = 0 THEN ranges ELSE ranges \cup {[base |-> base, end |-> base + size]}

\* mrc_cache_current_mmap_leak(MRC_TRAINING_DATA, version, &size): the payload of
\* the stored entry when its version tag is exactly `version`, else NULL
mrc_cache_current_mmap_leak(cache, version) ==
  IF cache.present /\ cache.version = version THEN cache.payload ELSE NULL

\* mrc_cache_verify_hash(data, size): the TPM answered and the hash it holds
\* is the hash of data
mrc_cache_verify_hash(hash, data, tpm_ok) == tpm_ok /\ hash = data

\* fsp_reset_requested(status) of fsp_handle_reset
fsp_reset_requested(st) == st = "FSP_STATUS_RESET_REQUIRED_COLD"

(***************************************************************************)
(* check_region_overlap (memory_init.c:134-151)                            *)
(***************************************************************************)
\* faulty variant: a range that touches an entry counts as overlapping
check_region_overlap_closed(ranges, begin, end) ==
  IF \E r \in ranges : ~(end < r.base) /\ ~(begin > r.end)
  THEN "CB_ERR" ELSE "CB_SUCCESS"

check_region_overlap(ranges, begin, end) ==
  IF \E r \in ranges : ~(end <= r.base) /\ ~(begin >= r.end)
  THEN "CB_ERR" ELSE "CB_SUCCESS"

(***************************************************************************)
(* fspm_get_dest (memory_init.c:331-365): 0 or -1                          *)
(***************************************************************************)
\* faulty variant: an XIP image mapped away from its image base is accepted
fspm_get_dest_any_base(xip, validate_ok, dest_is_image_base, ranges, img) ==
  IF xip
  THEN IF ~validate_ok THEN -1 ELSE 0
  ELSE LET fspm_begin == img.begin
           fspm_end == (fspm_begin + img.size) % AddrMod
       IN IF check_region_overlap(ranges, fspm_begin, fspm_end) # "CB_SUCCESS"
          THEN -1 ELSE 0

fspm_get_dest(xip, validate_ok, dest_is_image_base, ranges, img) ==
  IF xip
  THEN IF ~validate_ok THEN -1
       ELSE IF ~dest_is_image_base THEN -1
       ELSE 0
  ELSE LET fspm_begin == img.begin
           fspm_end == (fspm_begin + img.size) % AddrMod
       IN IF check_region_overlap(ranges, fspm_begin, fspm_end) # "CB_SUCCESS"
          THEN -1 ELSE 0

(***************************************************************************)
(* fsp_memory_init (memory_init.c:367-396)                                 *)
(***************************************************************************)
\* lines 379-386: build the memory map of the romstage address space
SeedMemmap ==
  /\ pc = "start"
  /\ memmap' =
       LET car == IF cfg.ENV_CACHE_AS_RAM
                  THEN memranges_insert({}, Layout.car_region_start,
                         Layout.car_unallocated_start - Layout.car_region_start)
                  ELSE {}
       IN memranges_insert(car, Layout.program, Layout.eprogram - Layout.program)
  /\ pc' = "load"
  /\ UNCHANGED <<cfg, mrc_cache, tpm_hash, s3wake, hdr, fsp_version,
                 arch_upd, status, hob, cbmem, calls, log>>

\* the addresses of [begin, end) that lie in an entry of ranges
Occupied(ranges, begin, end) ==
  {a \in Addr : begin <= a /\ a < end /\ \E r \in ranges : r.base <= a /\ a < r.end}

\* what makes fsp_load_component fail: the image is not found or does not
\* validate, an XIP image is not mapped at its image base, the destination of
\* a non-XIP image lies over an entry of the memory map
LoadFault(found, xip, validate_ok, dest_ok, ranges, img) ==
  IF ~found THEN "load"
  ELSE IF xip /\ ~validate_ok THEN "validate"
  ELSE IF xip /\ ~dest_ok THEN "xip_base"
  ELSE IF ~xip /\ Occupied(ranges, img.begin, img.begin + img.size) # {}
    THEN "image_overlap"
  ELSE "none"

\* lines 388-389: fsp_load_component, which calls fspm_get_dest; images are the
\* destinations CONFIG_FSP_M_ADDR may name, and keep says whether the accepted
\* destination is written to the log
LoadFrom(images, keep) ==
  /\ pc = "load"
  /\ \E found \in BOOLEAN, xip \in BOOLEAN, validate_ok \in BOOLEAN,
        dest_ok \in BOOLEAN, img \in images, rev \in Revisions :
       LET dest == fspm_get_dest(xip, validate_ok, dest_ok, memmap, img)
           fault == LoadFault(found, xip, validate_ok, dest_ok, memmap, img)
       IN IF found /\ dest = 0
          THEN /\ hdr' = [hdr EXCEPT !.fsp_revision = rev]
               /\ pc' = "preinit"
               /\ log' = [log EXCEPT !.fault = fault,
                                     !.fspm = IF keep /\ ~xip THEN img ELSE NoImage]
          ELSE /\ hdr' = hdr
               /\ pc' = "halt"
               /\ log' = [log EXCEPT !.fault = fault]
  /\ UNCHANGED <<cfg, mrc_cache, tpm_hash, s3wake, memmap, fsp_version,
                 arch_upd, status, hob, cbmem, calls>>

LoadComponent == LoadFrom(FspmImages, FALSE)

(***************************************************************************)
(* do_fsp_memory_init (memory_init.c:251-329)                              *)
(***************************************************************************)
\* lines 261-277: settings version, UPD signature, copy of the UPD defaults
\* sizes are the values of StackSize the image defaults may hold
PreInitFrom(sizes) ==
  /\ pc = "preinit"
  /\ \E hook \in HookValues, sig_ok \in BOOLEAN, size \in sizes :
       /\ hdr' = [hdr EXCEPT !.board = hook[1], !.soc = hook[2]]
       /\ fsp_version' = fsp_memory_settings_version(hdr.fsp_revision,
                           cfg.FSP_PLATFORM_MEMORY_SETTINGS_VERSIONS,
                           hook[1], hook[2])
       /\ IF ~sig_ok
          THEN /\ pc' = "halt"
               /\ arch_upd' = arch_upd
               /\ log' = [log EXCEPT !.fault = "signature"]
          ELSE /\ pc' = "fill_stack"
               /\ arch_upd' = [arch_upd EXCEPT !.StackSize = size]
               /\ log' = log
  /\ UNCHANGED <<cfg, mrc_cache, tpm_hash, s3wake, memmap, status, hob,
                 cbmem, calls>>

PreInit == PreInitFrom(StackSizes)

(***************************************************************************)
(* setup_fsp_stack_frame (memory_init.c:153-172)                           *)
(***************************************************************************)
setup_fsp_stack_frame(upd, ranges) ==
  LET stack_end == Layout.car_region_end
      stack_begin == (stack_end - upd.StackSize) % AddrMod
  IN IF check_region_overlap(ranges, stack_begin, stack_end) # "CB_SUCCESS"
     THEN [rc |-> "CB_ERR", upd |-> upd]
     ELSE [rc |-> "CB_SUCCESS",
           upd |-> [upd EXCEPT !.StackBase = [kind |-> "car", addr |-> stack_begin]]]

(***************************************************************************)
(* fsp_fill_mrc_cache (memory_init.c:94-132): the NvsBufferPtr it leaves   *)
(* and how it got there.                                                   *)
(***************************************************************************)
\* faulty variant: the retrain switch is not read
fsp_fill_mrc_cache_no_switch(c, rec, has_rec, retrain, cache, hash, tpm_ok, version) ==
  LET data == mrc_cache_current_mmap_leak(cache, version)
  IN IF ~c.CACHE_MRC_SETTINGS
       THEN [nvs |-> NULL, how |-> "disabled", found |-> NULL, lookup |-> 0, verify |-> 0]
     ELSE IF rec /\ ~has_rec
       THEN [nvs |-> NULL, how |-> "bypassed", found |-> NULL, lookup |-> 0, verify |-> 0]
     ELSE IF data = NULL
       THEN [nvs |-> NULL, how |-> "miss", found |-> NULL, lookup |-> 1, verify |-> 0]
     ELSE IF c.FSP2_0_USES_TPM_MRC_HASH /\ ~mrc_cache_verify_hash(hash, data, tpm_ok)
       THEN [nvs |-> NULL, how |-> "verify_failed", found |-> data, lookup |-> 1,
             verify |-> 1]
     ELSE [nvs |-> data, how |-> "hit", found |-> data, lookup |-> 1,
           verify |-> IF c.FSP2_0_USES_TPM_MRC_HASH THEN 1 ELSE 0]

\* faulty variant: the data found is used without asking the TPM
fsp_fill_mrc_cache_unverified(c, rec, has_rec, retrain, cache, hash, tpm_ok, version) ==
  LET data == mrc_cache_current_mmap_leak(cache, version)
  IN IF ~c.CACHE_MRC_SETTINGS
       THEN [nvs |-> NULL, how |-> "disabled", found |-> NULL, lookup |-> 0, verify |-> 0]
     ELSE IF rec /\ ~has_rec
       THEN [nvs |-> NULL, how |-> "bypassed", found |-> NULL, lookup |-> 0, verify |-> 0]
     ELSE IF rec /\ retrain
       THEN [nvs |-> NULL, how |-> "bypassed", found |-> NULL, lookup |-> 0, verify |-> 0]
     ELSE IF data = NULL
       THEN [nvs |-> NULL, how |-> "miss", found |-> NULL, lookup |-> 1, verify |-> 0]
     ELSE [nvs |-> data, how |-> "hit", found |-> data, lookup |-> 1,
           verify |-> IF c.FSP2_0_USES_TPM_MRC_HASH THEN 1 ELSE 0]

\* rec: vboot_recovery_mode_enabled(); has_rec: CONFIG(HAS_RECOVERY_MRC_CACHE)
fsp_fill_mrc_cache(c, rec, has_rec, retrain, cache, hash, tpm_ok, version) ==
  LET data == mrc_cache_current_mmap_leak(cache, version)
  IN IF ~c.CACHE_MRC_SETTINGS
       THEN [nvs |-> NULL, how |-> "disabled", found |-> NULL, lookup |-> 0, verify |-> 0]
     ELSE IF rec /\ ~has_rec
       THEN [nvs |-> NULL, how |-> "bypassed", found |-> NULL, lookup |-> 0, verify |-> 0]
     ELSE IF rec /\ retrain
       THEN [nvs |-> NULL, how |-> "bypassed", found |-> NULL, lookup |-> 0, verify |-> 0]
     ELSE IF data = NULL
       THEN [nvs |-> NULL, how |-> "miss", found |-> NULL, lookup |-> 1, verify |-> 0]
     ELSE IF c.FSP2_0_USES_TPM_MRC_HASH /\ ~mrc_cache_verify_hash(hash, data, tpm_ok)
       THEN [nvs |-> NULL, how |-> "verify_failed", found |-> data, lookup |-> 1,
             verify |-> 1]
     ELSE [nvs |-> data, how |-> "hit", found |-> data, lookup |-> 1,
           verify |-> IF c.FSP2_0_USES_TPM_MRC_HASH THEN 1 ELSE 0]

(***************************************************************************)
(* fsp_fill_common_arch_params (memory_init.c:174-209)                     *)
(***************************************************************************)
\* faulty variant: a cold boot always assumes no configuration changes
SelectBootMode_always_cached(wake, nvs) ==
  IF wake THEN "FSP_BOOT_ON_S3_RESUME"
  ELSE "FSP_BOOT_ASSUMING_NO_CONFIGURATION_CHANGES"

\* lines 196-204
SelectBootMode(wake, nvs) ==
  IF wake THEN "FSP_BOOT_ON_S3_RESUME"
  ELSE IF nvs # NULL THEN "FSP_BOOT_ASSUMING_NO_CONFIGURATION_CHANGES"
  ELSE "FSP_BOOT_WITH_FULL_CONFIGURATION"

\* faulty variant: the result of fsp_fill_common_arch_params is not looked at
AfterArchParams_ignored(rc) == "callback"

\* lines 280-286: a failure of fsp_fill_common_arch_params is fatal, after its
\* success the platform callback runs
AfterArchParams(rc) == IF rc # "CB_SUCCESS" THEN "halt" ELSE "callback"

\* line 186: the stack of the module is the scratch buffer temp_ram
SharedStack(uses_cb_stack, env_cache_as_ram) == uses_cb_stack \/ ~env_cache_as_ram

\* the stack the module would get from the top of cache-as-RAM
CarvedBegin(size) == (Layout.car_region_end - size) % AddrMod

\* lines 186-191: stack placement; keep says whether CONFIG(FSP_USES_CB_STACK)
\* is written to the log
FillStackKeep(keep) ==
  /\ pc = "fill_stack"
  /\ \E uses_cb_stack \in BOOLEAN :
       IF SharedStack(uses_cb_stack, cfg.ENV_CACHE_AS_RAM)
       THEN /\ arch_upd' = [arch_upd EXCEPT
                              !.StackBase = [kind |-> "temp_ram", addr |-> 0],
                              !.StackSize = TempRamSize]
            /\ pc' = "fill_mrc_cache"
            /\ log' = [log EXCEPT !.shared = keep /\ uses_cb_stack,
                                  !.stack = "shared"]
       ELSE LET r == setup_fsp_stack_frame(arch_upd, memmap)
                over == Occupied(memmap, CarvedBegin(arch_upd.StackSize),
                                 Layout.car_region_end) # {}
            IN /\ arch_upd' = r.upd
               /\ pc' = IF r.rc # "CB_SUCCESS" THEN AfterArchParams(r.rc)
                        ELSE "fill_mrc_cache"
               /\ log' = [log EXCEPT
                            !.fault = IF over THEN "stack_overlap" ELSE @,
                            !.stack = IF r.rc # "CB_SUCCESS" THEN "rejected"
                                      ELSE "carved"]
  /\ UNCHANGED <<cfg, mrc_cache, tpm_hash, s3wake, hdr, memmap,
                 fsp_version, status, hob, cbmem, calls>>

FillStack == FillStackKeep(FALSE)

\* line 193: consult the MRC cache
FillMrcCache ==
  /\ pc = "fill_mrc_cache"
  /\ \E recovery \in BOOLEAN, has_recovery_cache \in BOOLEAN,
        retrain \in BOOLEAN, tpm_ok \in BOOLEAN :
       LET r == fsp_fill_mrc_cache(cfg, recovery, has_recovery_cache, retrain,
                                   mrc_cache, tpm_hash, tpm_ok, fsp_version)
       IN /\ arch_upd' = [arch_upd EXCEPT !.NvsBufferPtr = r.nvs]
          /\ calls' = [calls EXCEPT !.lookup = @ + r.lookup,
                                    !.verify = @ + r.verify]
          /\ log' = [log EXCEPT !.cache = r.how, !.data = r.found,
                                !.forced = recovery /\ (~has_recovery_cache \/ retrain)]
  /\ pc' = "bootmode"
  /\ UNCHANGED <<cfg, mrc_cache, tpm_hash, s3wake, hdr, memmap,
                 fsp_version, status, hob, cbmem>>

\* lines 195-208: configure the boot mode and return CB_SUCCESS
ConfigureBootMode ==
  /\ pc = "bootmode"
  /\ arch_upd' = [arch_upd EXCEPT
                    !.BootMode = SelectBootMode(s3wake, arch_upd.NvsBufferPtr)]
  /\ pc' = AfterArchParams("CB_SUCCESS")
  /\ UNCHANGED <<cfg, mrc_cache, tpm_hash, s3wake, hdr, memmap,
                 fsp_version, status, hob, cbmem, calls, log>>

\* a training-data blob of the platform's own, which is no payload of the cache
PlatformBlob == MaxPayload + 1

\* line 286: platform_fsp_memory_init_params_cb(&fspm_upd, fsp_version) may
\* overwrite any field of the UPD: it leaves NvsBufferPtr, clears it or points
\* it at a blob of the platform's own, and leaves the boot mode or forces full
\* configuration
PlatformCallback ==
  /\ pc = "callback"
  /\ \E nvs \in {arch_upd.NvsBufferPtr, NULL, PlatformBlob},
        mode \in {arch_upd.BootMode, "FSP_BOOT_WITH_FULL_CONFIGURATION"} :
       arch_upd' = [arch_upd EXCEPT !.NvsBufferPtr = nvs, !.BootMode = mode]
  /\ calls' = [calls EXCEPT !.callback = @ + 1]
  /\ pc' = "s3_check"
  /\ UNCHANGED <<cfg, mrc_cache, tpm_hash, s3wake, hdr, memmap,
                 fsp_version, status, hob, cbmem, log>>

\* faulty variant: the resume check is left out
S3ResetNeeded_never(wake, nvs) == FALSE

\* line 294
S3ResetNeeded(wake, nvs) == wake /\ nvs = NULL

\* lines 298-299: how often setup_mma(&fspm_upd.FspmConfig) is called
SetupMmaCalls(mma) == IF mma THEN 1 ELSE 0

\* lines 294-301: a resume without training data resets; with CONFIG(MMA)
\* setup_mma then writes the MMA fields of the module configuration
S3Check ==
  /\ pc = "s3_check"
  /\ IF S3ResetNeeded(s3wake, arch_upd.NvsBufferPtr)
     THEN /\ pc' = "reset"
          /\ calls' = [calls EXCEPT !.full_reset = @ + 1]
     ELSE /\ pc' = "module_call"
          /\ \E mma \in BOOLEAN :
               calls' = [calls EXCEPT !.setup_mma = @ + SetupMmaCalls(mma)]
  /\ UNCHANGED <<cfg, mrc_cache, tpm_hash, s3wake, hdr, memmap,
                 fsp_version, arch_upd, status, hob, cbmem, log>>

\* lines 303-311: the call of FspMemoryInit
ModuleCall ==
  /\ pc = "module_call"
  /\ \E st \in StatusCodes, h \in {NULL} \cup Payloads :
       /\ status' = st
       /\ hob' = IF st = "FSP_SUCCESS" THEN h ELSE NULL
  /\ calls' = [calls EXCEPT !.fsp_raminit = @ + 1]
  /\ pc' = "handle_reset"
  /\ UNCHANGED <<cfg, mrc_cache, tpm_hash, s3wake, hdr, memmap,
                 fsp_version, arch_upd, cbmem, log>>

\* faulty variant: the reset request of the module is not looked at
AfterHandleReset_ignored(st) == "check_status"

\* line 314: fsp_handle_reset(status) resets when the status asks for it
AfterHandleReset(st) == IF fsp_reset_requested(st) THEN "reset" ELSE "check_status"

HandleReset ==
  /\ pc = "handle_reset"
  /\ pc' = AfterHandleReset(status)
  /\ calls' = IF pc' = "reset" THEN [calls EXCEPT !.full_reset = @ + 1] ELSE calls
  /\ UNCHANGED <<cfg, mrc_cache, tpm_hash, s3wake, hdr, memmap,
                 fsp_version, arch_upd, status, hob, cbmem, log>>

\* faulty variant: an error status calls the module again
AfterCheckStatus_retry(st) == IF st # "FSP_SUCCESS" THEN "module_call" ELSE "post_init"

\* faulty variant: an error status loads the module again
AfterCheckStatus_reload(st) == IF st # "FSP_SUCCESS" THEN "load" ELSE "post_init"

\* faulty variant: an error status is only logged
AfterCheckStatus_continue(st) == "post_init"

\* lines 315-321
AfterCheckStatus(st) == IF st # "FSP_SUCCESS" THEN "halt" ELSE "post_init"

CheckStatus ==
  /\ pc = "check_status"
  /\ pc' = AfterCheckStatus(status)
  /\ UNCHANGED <<cfg, mrc_cache, tpm_hash, s3wake, hdr, memmap,
                 fsp_version, arch_upd, status, hob, cbmem, calls, log>>

(***************************************************************************)
(* save_memory_training_data (memory_init.c:34-60): how often it calls     *)
(* mrc_cache_stash_data and mrc_cache_update_hash, and what they leave.    *)
(* data is the result of fsp_find_nv_storage_data; stash_ok is whether     *)
(* mrc_cache_stash_data returned >= 0.                                     *)
(***************************************************************************)
\* faulty variant: the s3wake test of line 39 is left out
save_memory_training_data_on_resume(c, wake, version, data, stash_ok, cache, hash, h) ==
  IF ~c.CACHE_MRC_SETTINGS
    THEN [cache |-> cache, hash |-> hash, stash |-> 0, update_hash |-> 0,
          stored |-> FALSE]
  ELSE IF data = NULL
    THEN [cache |-> cache, hash |-> hash, stash |-> 0, update_hash |-> 0,
          stored |-> FALSE]
  ELSE [cache |-> IF stash_ok
                  THEN [present |-> TRUE, version |-> version, payload |-> data,
                        rev |-> h.fsp_revision, board |-> h.board, soc |-> h.soc]
                  ELSE cache,
        hash |-> IF c.FSP2_0_USES_TPM_MRC_HASH THEN data ELSE hash,
        stash |-> 1, stored |-> stash_ok,
        update_hash |-> IF c.FSP2_0_USES_TPM_MRC_HASH THEN 1 ELSE 0]

\* faulty variant: the entry is tagged with the revision of the image header
save_memory_training_data_raw_tag(c, wake, version, data, stash_ok, cache, hash, h) ==
  IF ~c.CACHE_MRC_SETTINGS \/ wake
    THEN [cache |-> cache, hash |-> hash, stash |-> 0, update_hash |-> 0,
          stored |-> FALSE]
  ELSE IF data = NULL
    THEN [cache |-> cache, hash |-> hash, stash |-> 0, update_hash |-> 0,
          stored |-> FALSE]
  ELSE [cache |-> IF stash_ok
                  THEN [present |-> TRUE, version |-> h.fsp_revision, payload |-> data,
                        rev |-> h.fsp_revision, board |-> h.board, soc |-> h.soc]
                  ELSE cache,
        hash |-> IF c.FSP2_0_USES_TPM_MRC_HASH THEN data ELSE hash,
        stash |-> 1, stored |-> stash_ok,
        update_hash |-> IF c.FSP2_0_USES_TPM_MRC_HASH THEN 1 ELSE 0]

\* faulty variant: data equal to the cached payload is not stored again
save_memory_training_data_skip_equal(c, wake, version, data, stash_ok, cache, hash, h) ==
  IF ~c.CACHE_MRC_SETTINGS \/ wake
    THEN [cache |-> cache, hash |-> hash, stash |-> 0, update_hash |-> 0,
          stored |-> FALSE]
  ELSE IF data = NULL \/ (cache.present /\ cache.payload = data)
    THEN [cache |-> cache, hash |-> hash, stash |-> 0, update_hash |-> 0,
          stored |-> FALSE]
  ELSE [cache |-> IF stash_ok
                  THEN [present |-> TRUE, version |-> version, payload |-> data,
                        rev |-> h.fsp_revision, board |-> h.board, soc |-> h.soc]
                  ELSE cache,
        hash |-> IF c.FSP2_0_USES_TPM_MRC_HASH THEN data ELSE hash,
        stash |-> 1, stored |-> stash_ok,
        update_hash |-> IF c.FSP2_0_USES_TPM_MRC_HASH THEN 1 ELSE 0]

save_memory_training_data(c, wake, version, data, stash_ok, cache, hash, h) ==
  IF ~c.CACHE_MRC_SETTINGS \/ wake
    THEN [cache |-> cache, hash |-> hash, stash |-> 0, update_hash |-> 0,
          stored |-> FALSE]
  ELSE IF data = NULL
    THEN [cache |-> cache, hash |-> hash, stash |-> 0, update_hash |-> 0,
          stored |-> FALSE]
  ELSE [cache |-> IF stash_ok
                  THEN [present |-> TRUE, version |-> version, payload |-> data,
                        rev |-> h.fsp_revision, board |-> h.board, soc |-> h.soc]
                  ELSE cache,
        hash |-> IF c.FSP2_0_USES_TPM_MRC_HASH THEN data ELSE hash,
        stash |-> 1, stored |-> stash_ok,
        update_hash |-> IF c.FSP2_0_USES_TPM_MRC_HASH THEN 1 ELSE 0]

(***************************************************************************)
(* do_fsp_post_memory_init (memory_init.c:62-92)                           *)
(***************************************************************************)
\* line 66: fsp_find_reserved_memory(&fsp_mem)
FindReserved ==
  /\ pc = "post_init"
  /\ calls' = [calls EXCEPT !.find_reserved = @ + 1]
  /\ pc' = "init_cbmem"
  /\ UNCHANGED <<cfg, mrc_cache, tpm_hash, s3wake, hdr, memmap,
                 fsp_version, arch_upd, status, hob, cbmem, log>>

\* faulty variant: a failed recovery never resets
AfterRecovery_no_reset(failed, have_acpi_resume) == "cbmem_check"

\* lines 72-81: a failed recovery of cbmem resets under CONFIG(HAVE_ACPI_RESUME)
AfterRecovery(failed, have_acpi_resume) ==
  IF failed /\ have_acpi_resume THEN "reset" ELSE "cbmem_check"

\* lines 68-81: cbmem initialised empty (cold) or recovered (S3)
InitCbmem ==
  /\ pc = "init_cbmem"
  /\ IF ~s3wake
     THEN /\ cbmem' = "fresh"
          /\ calls' = [calls EXCEPT !.cbmem_empty = @ + 1]
          /\ pc' = "cbmem_check"
          /\ log' = log
     ELSE \E failed \in BOOLEAN, have_acpi_resume \in BOOLEAN :
            /\ cbmem' = IF failed THEN "failed" ELSE "recovered"
            /\ pc' = AfterRecovery(failed, have_acpi_resume)
            /\ calls' = [calls EXCEPT
                            !.cbmem_recover = @ + 1,
                            !.full_reset = IF pc' = "reset" THEN @ + 1 ELSE @]
            /\ log' = [log EXCEPT !.acpi_resume = failed /\ have_acpi_resume]
  /\ UNCHANGED <<cfg, mrc_cache, tpm_hash, s3wake, hdr, memmap,
                 fsp_version, arch_upd, status, hob>>

\* cbmem_find(CBMEM_ID_FSP_RESERVED_MEMORY) is the base of the reserved memory:
\* placed says whether the entry sits where the module reserved its memory; an
\* area whose recovery failed holds no entry
cbmem_find_matches(area, placed) == area \in {"fresh", "recovered"} /\ placed

\* faulty variant: a base mismatch is only reported
AfterBaseCheck_continue(matches) == "save_training"

\* lines 83-88
AfterBaseCheck(matches) == IF ~matches THEN "halt" ELSE "save_training"

\* lines 83-86: the FSP reserved memory must sit at the cbmem entry
CheckCbmem ==
  /\ pc = "cbmem_check"
  /\ \E placed \in BOOLEAN :
       LET matches == cbmem_find_matches(cbmem, placed)
       IN /\ pc' = AfterBaseCheck(matches)
          /\ log' = [log EXCEPT !.base = IF matches THEN "match" ELSE "mismatch"]
  /\ UNCHANGED <<cfg, mrc_cache, tpm_hash, s3wake, hdr, memmap,
                 fsp_version, arch_upd, status, hob, cbmem, calls>>

\* line 88
SaveTraining ==
  /\ pc = "save_training"
  /\ \E stash_ok \in BOOLEAN :
       LET r == save_memory_training_data(cfg, s3wake, fsp_version, hob, stash_ok,
                                          mrc_cache, tpm_hash, hdr)
       IN /\ mrc_cache' = r.cache
          /\ tpm_hash' = r.hash
          /\ calls' = [calls EXCEPT !.stash = @ + r.stash,
                                    !.update_hash = @ + r.update_hash,
                                    !.save = @ + 1]
          /\ log' = [log EXCEPT !.stored = r.stored]
  /\ pc' = "handoff"
  /\ UNCHANGED <<cfg, s3wake, hdr, memmap, fsp_version, arch_upd, status,
                 hob, cbmem>>

\* lines 90-91, then the return through do_fsp_memory_init and fsp_memory_init
\* faulty variant: the hand-off is always recorded as a cold boot
HandoffFlag_cold(wake) == "cold"

\* line 91: the argument of romstage_handoff_init
HandoffFlag(wake) == IF wake THEN "resume" ELSE "cold"

Handoff ==
  /\ pc = "handoff"
  /\ calls' = [calls EXCEPT !.handoff = @ + 1]
  /\ log' = [log EXCEPT !.handoff = HandoffFlag(s3wake)]
  /\ pc' = "done"
  /\ UNCHANGED <<cfg, mrc_cache, tpm_hash, s3wake, hdr, memmap,
                 fsp_version, arch_upd, status, hob, cbmem>>

(***************************************************************************)
(* The next boot: after a reset, a halt or a finished boot the flow starts *)
(* again at fsp_memory_init; the MRC cache and the TPM hash are kept.      *)
(***************************************************************************)
Reboot ==
  /\ pc \in Terminal
  /\ \E wake \in BOOLEAN : BootStart(wake)
  /\ UNCHANGED <<cfg, mrc_cache, tpm_hash>>

Next ==
  \/ SeedMemmap
  \/ LoadComponent
  \/ PreInit
  \/ FillStack
  \/ FillMrcCache
  \/ ConfigureBootMode
  \/ PlatformCallback
  \/ S3Check
  \/ ModuleCall
  \/ HandleReset
  \/ CheckStatus
  \/ FindReserved
  \/ InitCbmem
  \/ CheckCbmem
  \/ SaveTraining
  \/ Handoff
  \/ Reboot

Spec == Init /\ [][Next]_vars

(***************************************************************************)
(* The region reservations on their own: the memory map is seeded, the      *)
(* destination of the module image and the stack of the module are placed,  *)
(* for every destination and every stack size of the address space.         *)
(***************************************************************************)
\* CONFIG_FSP_M_ADDR and image size of a non-XIP module: below cache-as-RAM,
\* over its used part, in its unused part, over the program
RegionImages == {[begin |-> 0, size |-> 3], [begin |-> 7, size |-> 2],
                 [begin |-> 9, size |-> 2], [begin |-> 12, size |-> 1],
                 [begin |-> 12, size |-> 2]}
\* every StackSize a 2^AddrBits address space can hold
RegionStackSizes == Addr

RegionLoad == LoadFrom(RegionImages, TRUE)
RegionPreInit == PreInitFrom(RegionStackSizes)
RegionFillStack == FillStackKeep(TRUE)

RegionNext ==
  \/ SeedMemmap
  \/ RegionLoad
  \/ RegionPreInit
  \/ RegionFillStack

SpecRegions == Init /\ [][RegionNext]_vars

(***************************************************************************)
(* The version derivation on its own: fsp_memory_settings_version applied  *)
(* to module revisions and to every uint8_t value of the two hooks.        *)
(***************************************************************************)
UINT8_MAX == 255
VersionRevisions == {FromNat(5), FromNat(305419896), AllOnes}

VersionInit ==
  /\ cfg \in {c \in Configs : c.CACHE_MRC_SETTINGS /\ c.ENV_CACHE_AS_RAM
                              /\ ~c.FSP2_0_USES_TPM_MRC_HASH}
  /\ hdr \in [fsp_revision : VersionRevisions, board : 0 .. UINT8_MAX,
              soc : 0 .. UINT8_MAX]
  /\ pc = "version_in"
  /\ mrc_cache = NoEntry
  /\ tpm_hash = NULL
  /\ s3wake = FALSE
  /\ memmap = {}
  /\ fsp_version = FromNat(0)
  /\ arch_upd = UnsetUpd
  /\ status = "none"
  /\ hob = NULL
  /\ cbmem = "none"
  /\ calls = NoCalls
  /\ log = NoLog

\* line 263
DeriveVersion ==
  /\ pc = "version_in"
  /\ fsp_version' = fsp_memory_settings_version(hdr.fsp_revision,
                      cfg.FSP_PLATFORM_MEMORY_SETTINGS_VERSIONS, hdr.board, hdr.soc)
  /\ pc' = "version_out"
  /\ UNCHANGED <<cfg, mrc_cache, tpm_hash, s3wake, hdr, memmap, arch_upd,
                 status, hob, cbmem, calls, log>>

VersionNext == DeriveVersion

SpecVersion == VersionInit /\ [][VersionNext]_vars

(***************************************************************************)
(* Properties.                                                             *)
(***************************************************************************)
\* fsp_fill_mrc_cache ran in this boot and left no training data
NoUsableCache == log.cache \in {"disabled", "bypassed", "miss", "verify_failed"}
\* the platform callback has returned and the resume check of line 294 is done
PastS3Check == calls.callback = 1 /\ pc # "s3_check"
\* do_fsp_post_memory_init did nothing yet
NoPostInit ==
  /\ calls.cbmem_empty = 0 /\ calls.cbmem_recover = 0
  /\ calls.stash = 0 /\ calls.update_hash = 0 /\ calls.handoff = 0
  /\ cbmem = "none"

\* C1 as claimed: on every resume boot in which the cache consultation yields
\* no usable training data (cache disabled, bypassed, lookup miss, failed
\* verification) the run ends in a full reset and FspMemoryInit is never called.
C1_ResumeWithoutCacheResets ==
  (s3wake /\ NoUsableCache) =>
     /\ calls.fsp_raminit = 0
     /\ (pc \in Terminal => pc = "reset")

\* C1 amended: on every resume boot that passes the resume check with a null
\* NvsBufferPtr after the platform callback, a full reset was issued and
\* FspMemoryInit is not called; FspMemoryInit is called on a resume boot only
\* with a non-null NvsBufferPtr.
C1_ResumeNullPointerResets ==
  /\ (s3wake /\ PastS3Check /\ arch_upd.NvsBufferPtr = NULL) =>
        (pc = "reset" /\ calls.fsp_raminit = 0 /\ calls.full_reset = 1)
  /\ (s3wake /\ calls.fsp_raminit > 0) => arch_upd.NvsBufferPtr # NULL

C1_Witness ==
  /\ s3wake /\ log.cache = "miss" /\ arch_upd.NvsBufferPtr = NULL
  /\ pc = "reset" /\ calls.fsp_raminit = 0 /\ calls.callback = 1

\* C2: in one boot FspMemoryInit is called at most once, it is not called again
\* after an error status, and a boot that ends in done called it exactly once.
C2_ModuleCalledAtMostOnce ==
  /\ calls.fsp_raminit <= 1
  /\ (pc = "done" => calls.fsp_raminit = 1)
  /\ (pc = "halt" /\ status # "none" => calls.fsp_raminit = 1)

C2_Witness == pc = "done" /\ calls.fsp_raminit = 1 /\ mrc_cache.present

\* C3 as claimed: every cold boot in which FspMemoryInit returned success
\* ends with exactly one call of mrc_cache_stash_data.
C3_ColdSuccessStoresOnce ==
  (~s3wake /\ status = "FSP_SUCCESS" /\ pc \in Terminal) => calls.stash = 1

\* C3 amended: mrc_cache_stash_data is called at most once per boot; a cold
\* boot in which FspMemoryInit returned success and the cbmem base check passed
\* calls it exactly once when CACHE_MRC_SETTINGS is set and the module left a
\* training-data HOB (also when the data equals the cached payload), and not
\* at all otherwise.
C3_ColdSuccessStoresOnceIfData ==
  /\ calls.stash <= 1
  /\ (~s3wake /\ pc \in {"handoff", "done"}) =>
        calls.stash = (IF cfg.CACHE_MRC_SETTINGS /\ hob # NULL THEN 1 ELSE 0)
  /\ (~s3wake /\ pc = "halt") => calls.stash = 0

\* a cold boot that got a cache hit, trained the same payload and stored it
C3_Witness ==
  /\ ~s3wake /\ pc = "done" /\ status = "FSP_SUCCESS"
  /\ log.cache = "hit" /\ log.data = hob /\ hob # NULL
  /\ calls.stash = 1

\* C4: a resume boot never calls mrc_cache_stash_data nor
\* mrc_cache_update_hash, whatever the module status and the cache state.
C4_ResumeNeverStores == s3wake => (calls.stash = 0 /\ calls.update_hash = 0)

C4_Witness ==
  /\ s3wake /\ pc = "done" /\ hob # NULL
  /\ cfg.CACHE_MRC_SETTINGS /\ cfg.FSP2_0_USES_TPM_MRC_HASH
  /\ calls.stash = 0 /\ calls.update_hash = 0

\* C5: a status that is neither success nor a reset request ends the run in a
\* fatal halt; do_fsp_post_memory_init is never entered (no cbmem
\* initialisation, no store, no hand-off).
C5_ModuleErrorHalts ==
  (status \notin {"none", "FSP_SUCCESS"} /\ ~fsp_reset_requested(status)) =>
     /\ pc \in {"handle_reset", "check_status", "halt"}
     /\ NoPostInit

C5_Witness ==
  /\ status = "FSP_DEVICE_ERROR" /\ pc = "halt"
  /\ calls.fsp_raminit = 1 /\ NoPostInit

\* C6: the reset request is handled before the status is compared with
\* success: on a reset request the flow resets, on cold and on resume boots,
\* and reaches neither the fatal halt nor do_fsp_post_memory_init.
C6_ResetRequestHonoured ==
  /\ fsp_reset_requested(status) =>
        (pc \in {"handle_reset", "reset"} /\ NoPostInit)
  /\ pc = "check_status" => ~fsp_reset_requested(status)

C6_Witness ==
  /\ fsp_reset_requested(status) /\ pc = "reset" /\ s3wake
  /\ calls.fsp_raminit = 1 /\ calls.full_reset = 1

(* the three-way choice of fsp_fill_common_arch_params, stated on its result *)
ThreeWayMode ==
  /\ s3wake => arch_upd.BootMode = "FSP_BOOT_ON_S3_RESUME"
  /\ (~s3wake /\ log.cache = "hit") =>
        (arch_upd.NvsBufferPtr # NULL /\
         arch_upd.BootMode = "FSP_BOOT_ASSUMING_NO_CONFIGURATION_CHANGES")
  /\ (~s3wake /\ log.cache # "hit") =>
        (arch_upd.NvsBufferPtr = NULL /\
         arch_upd.BootMode = "FSP_BOOT_WITH_FULL_CONFIGURATION")

\* C7 as claimed: the builder chooses the boot mode three ways (resume; cold
\* with cache hit: no configuration changes; cold with miss: full
\* configuration), and at the call of FspMemoryInit on a cold boot the mode is
\* "no configuration changes" exactly when training data is supplied.
C7_BootModeAtCall ==
  /\ pc = "callback" => ThreeWayMode
  /\ (~s3wake /\ calls.fsp_raminit = 1) =>
        (arch_upd.BootMode = "FSP_BOOT_ASSUMING_NO_CONFIGURATION_CHANGES"
           <=> arch_upd.NvsBufferPtr # NULL)

\* C7 amended: when fsp_fill_common_arch_params returns (before the platform
\* callback, which may overwrite both fields) the boot mode is chosen three
\* ways, and on a cold boot it is "no configuration changes" exactly when
\* NvsBufferPtr is non-null.
C7_BootModeAtBuilderReturn ==
  pc = "callback" =>
    /\ ThreeWayMode
    /\ ~s3wake =>
         (arch_upd.BootMode = "FSP_BOOT_ASSUMING_NO_CONFIGURATION_CHANGES"
            <=> arch_upd.NvsBufferPtr # NULL)

C7_Witness ==
  /\ pc = "callback" /\ ~s3wake /\ log.cache = "hit"
  /\ arch_upd.BootMode = "FSP_BOOT_ASSUMING_NO_CONFIGURATION_CHANGES"

\* C8: with platform versioning disabled the derived version is the revision;
\* enabled, its bits 31:8 are those of the revision, bits 7:4 are board & 0xF
\* and bits 3:0 are soc & 0xF, for every hook value; revision 0x00000005 gives
\* 0x00000005 when disabled and 0x00000029 when enabled with board 2, SoC 9.
C8_VersionDerivation ==
  pc = "version_out" =>
    /\ ~cfg.FSP_PLATFORM_MEMORY_SETTINGS_VERSIONS =>
         fsp_version = hdr.fsp_revision
    /\ cfg.FSP_PLATFORM_MEMORY_SETTINGS_VERSIONS =>
         /\ \A i \in 8 .. (WordBits - 1) : fsp_version[i] = hdr.fsp_revision[i]
         /\ Field(fsp_version, 4, 7) = hdr.board % 16
         /\ Field(fsp_version, 0, 3) = hdr.soc % 16
    /\ (hdr.fsp_revision = FromNat(5) /\ hdr.board = 2 /\ hdr.soc = 9) =>
         fsp_version = FromNat(IF cfg.FSP_PLATFORM_MEMORY_SETTINGS_VERSIONS
                               THEN 41 ELSE 5)

C8_Witness ==
  /\ pc = "version_out" /\ cfg.FSP_PLATFORM_MEMORY_SETTINGS_VERSIONS
  /\ hdr.fsp_revision = FromNat(5) /\ hdr.board = 2 /\ hdr.soc = 9
  /\ fsp_version = FromNat(41)

\* C9 as claimed: with platform versioning enabled the low nibble (bits 3:0)
\* of the derived version holds the board id and bits 7:4 hold the SoC id.
C9_LowNibbleIsBoard ==
  (pc = "version_out" /\ cfg.FSP_PLATFORM_MEMORY_SETTINGS_VERSIONS) =>
    /\ Field(fsp_version, 0, 3) = hdr.board % 16
    /\ Field(fsp_version, 4, 7) = hdr.soc % 16

\* C9 amended: with platform versioning enabled the low nibble (bits 3:0) of
\* the derived version holds the low four bits of the SoC id and bits 7:4 hold
\* the low four bits of the board id.
C9_LowNibbleIsSoc ==
  (pc = "version_out" /\ cfg.FSP_PLATFORM_MEMORY_SETTINGS_VERSIONS) =>
    /\ Field(fsp_version, 0, 3) = hdr.soc % 16
    /\ Field(fsp_version, 4, 7) = hdr.board % 16

C9_Witness ==
  /\ pc = "version_out" /\ cfg.FSP_PLATFORM_MEMORY_SETTINGS_VERSIONS
  /\ hdr.board = 18 /\ hdr.soc = 25
  /\ Field(fsp_version, 0, 3) = 9 /\ Field(fsp_version, 4, 7) = 2

\* a cold boot whose builder has returned, with platform versioning enabled,
\* finds an entry stored by an earlier boot with the same module revision
ColdBootSeesOlderEntry ==
  /\ pc = "callback" /\ ~s3wake
  /\ cfg.FSP_PLATFORM_MEMORY_SETTINGS_VERSIONS
  /\ mrc_cache.present /\ mrc_cache.rev = hdr.fsp_revision

\* the builder handed out no cached data and chose full configuration
BuiltFullConfiguration ==
  /\ log.cache # "hit"
  /\ arch_upd.NvsBufferPtr = NULL
  /\ arch_upd.BootMode = "FSP_BOOT_WITH_FULL_CONFIGURATION"

\* C10 as claimed: with platform versioning enabled and the revision unchanged,
\* any change of the value of the board hook or of the SoC hook since the boot
\* that stored the entry makes the lookup miss, and a cold boot selects full
\* configuration.
C10_AnyHookChangeInvalidates ==
  (ColdBootSeesOlderEntry /\
   (mrc_cache.board # hdr.board \/ mrc_cache.soc # hdr.soc)) =>
     BuiltFullConfiguration

\* C10 amended: with platform versioning enabled and the revision unchanged,
\* any change of the low four bits of the value of the board hook or of the
\* SoC hook since the boot that stored the entry makes the lookup miss, and a
\* cold boot leaves fsp_fill_common_arch_params with a null NvsBufferPtr and
\* full configuration.
C10_NibbleChangeInvalidates ==
  (ColdBootSeesOlderEntry /\
   (mrc_cache.board % 16 # hdr.board % 16 \/ mrc_cache.soc % 16 # hdr.soc % 16)) =>
     BuiltFullConfiguration

C10_Witness ==
  /\ ColdBootSeesOlderEntry
  /\ mrc_cache.board = hdr.board /\ mrc_cache.soc % 16 # hdr.soc % 16
  /\ log.cache = "miss" /\ BuiltFullConfiguration

\* the regions reserved so far in this boot: the entries the memory map was
\* seeded with, the destination accepted for a non-XIP module image, the stack
\* carved from cache-as-RAM
AcceptedRegions ==
  {[what |-> "seed", base |-> r.base, end |-> r.end] : r \in memmap}
  \cup (IF log.fspm.size > 0
        THEN {[what |-> "image", base |-> log.fspm.begin,
               end |-> log.fspm.begin + log.fspm.size]}
        ELSE {})
  \cup (IF arch_upd.StackBase.kind = "car"
        THEN {[what |-> "stack", base |-> arch_upd.StackBase.addr,
               end |-> Layout.car_region_end]}
        ELSE {})
\* the addresses of a region
Cells(r) == {a \in Addr : r.base <= a /\ a < r.end}

\* C11 as claimed: in one boot no two accepted regions (the seeded footprint,
\* the destination of the non-XIP module image, the carved stack) overlap.
C11_AcceptedRegionsDisjoint ==
  \A r1 \in AcceptedRegions, r2 \in AcceptedRegions :
    r1 # r2 => Cells(r1) \cap Cells(r2) = {}

\* the module was called in this boot
ModuleCalled == calls.fsp_raminit >= 1
\* the image defaults are copied and fsp_fill_common_arch_params has set the
\* stack, consulted the cache and selected the boot mode
CommonFieldsSet ==
  /\ arch_upd.StackBase.kind # "unset"
  /\ arch_upd.BootMode # "unset"
  /\ log.cache # "none"
\* the callback is invoked once when the module is called, after the common
\* fields are set, and not at all when validation or parameter building failed
CallbackOnceAfterBuilder ==
  /\ calls.callback <= 1
  /\ ModuleCalled => calls.callback = 1
  /\ calls.callback = 1 => CommonFieldsSet
  /\ pc = "callback" => CommonFieldsSet
  /\ log.fault # "none" => calls.callback = 0

\* C12 as claimed: in every run that reaches the module call the platform
\* callback is invoked exactly once, after the defaults are copied and the
\* common fields are set, and the core writes no field of the module
\* configuration between its return and the module call; in runs that halt
\* during validation or parameter building it is not invoked.
C12_CallbackRunsLast ==
  /\ CallbackOnceAfterBuilder
  /\ ModuleCalled => calls.setup_mma = 0

\* C12 amended: as C12, but between the return of the callback and the module
\* call the core writes the module configuration in one case, setup_mma under
\* CONFIG(MMA), called at most once; the fields fsp_fill_common_arch_params
\* set are not written by the core after the callback.
C12_CallbackRunsLastButMma ==
  /\ [](CallbackOnceAfterBuilder /\ calls.setup_mma <= 1)
  /\ [][(calls.callback = 1 /\ calls'.callback = 1) => arch_upd' = arch_upd]_vars
C12_Witness ==
  /\ ModuleCalled /\ calls.callback = 1 /\ calls.setup_mma = 1
  /\ arch_upd.NvsBufferPtr # NULL

\* the cache holds what it held when fsp_fill_mrc_cache looked it up
CacheAsLookedUp == calls.stash = 0 /\ calls.update_hash = 0
\* NvsBufferPtr points at training data of the cache
CachedDataHandedOver == arch_upd.NvsBufferPtr \in Payloads

C14_RecoveryBypassesCache ==
  log.forced =>
    /\ calls.lookup = 0 /\ calls.verify = 0
    /\ log.cache \in {"disabled", "bypassed"} /\ log.data = NULL
    /\ ~CachedDataHandedOver
    /\ pc \in {"bootmode", "callback"} => arch_upd.NvsBufferPtr = NULL
    /\ (pc = "callback" /\ ~s3wake) =>
         arch_upd.BootMode = "FSP_BOOT_WITH_FULL_CONFIGURATION"
C14_Witness ==
  /\ log.forced /\ cfg.CACHE_MRC_SETTINGS /\ ~s3wake /\ pc = "callback"
  /\ mrc_cache.present /\ mrc_cache.version = fsp_version
  /\ tpm_hash = mrc_cache.payload
  /\ arch_upd.BootMode = "FSP_BOOT_WITH_FULL_CONFIGURATION"

\* the order of the positions of the flow, and the stage each belongs to
PcOrder == <<"start", "load", "preinit", "fill_stack", "fill_mrc_cache",
             "bootmode", "callback", "s3_check", "module_call", "handle_reset",
             "check_status", "post_init", "init_cbmem", "cbmem_check",
             "save_training", "handoff", "done", "reset", "halt">>
PcRank(p) == CHOOSE i \in 1..Len(PcOrder) : PcOrder[i] = p
StageOf(p) ==
  IF p = "start" THEN "START"
  ELSE IF p \in {"load", "preinit", "fill_stack"} THEN "ENV_PREP"
  ELSE IF p \in {"fill_mrc_cache", "bootmode", "callback", "s3_check"}
    THEN "CACHE_CONSULT"
  ELSE IF p \in {"module_call", "handle_reset", "check_status"} THEN "MODULE_CALL"
  ELSE IF p \in {"post_init", "init_cbmem", "cbmem_check", "save_training",
                 "handoff"} THEN "RECONCILE"
  ELSE IF p = "done" THEN "DONE"
  ELSE IF p = "reset" THEN "RESET"
  ELSE "HALT"
StageOrder == <<"START", "ENV_PREP", "CACHE_CONSULT", "MODULE_CALL", "RECONCILE",
                "DONE", "RESET", "HALT">>
StageRank(p) == CHOOSE i \in 1..Len(StageOrder) : StageOrder[i] = StageOf(p)
\* what a finished boot has passed
DoneGates ==
  /\ log.fault = "none"
  /\ arch_upd.StackBase.kind # "unset"
  /\ calls.callback = 1 /\ calls.fsp_raminit = 1
  /\ status = "FSP_SUCCESS" /\ ~fsp_reset_requested(status)
  /\ calls.full_reset = 0
  /\ s3wake => arch_upd.NvsBufferPtr # NULL
  /\ calls.find_reserved = 1
  /\ cbmem = (IF s3wake THEN "recovered" ELSE "fresh")
  /\ log.base = "match"
  /\ calls.handoff = 1

\* C15: within one boot the flow only moves forward through START, ENV_PREP,
\* CACHE_CONSULT, MODULE_CALL, RECONCILE, DONE: every step moves to a later
\* position, no stage is entered again after it was left, a boot that has not
\* ended in done, reset or halt can take a step (so, the positions being
\* finitely many, every boot ends in exactly one of the three), and it ends in
\* done only when validation passed, the module returned success without a
\* reset request and the reconciliation passed.
C15_ForwardOnlyToOneEnd ==
  /\ [][pc \notin Terminal =>
          /\ PcRank(pc') > PcRank(pc)
          /\ StageRank(pc') >= StageRank(pc)
          /\ StageOf(pc') \in {StageOf(pc), "RESET", "HALT",
                               StageOrder[StageRank(pc) + 1]}]_vars
  /\ [][(pc \in Terminal) => (pc' = "start")]_vars
  /\ [](pc = "done" => DoneGates)
  /\ [](pc \notin Terminal => ENABLED Next)
C15_Witness == pc = "done" /\ s3wake /\ DoneGates /\ mrc_cache.present

\* C16: each validation error (the module image is not found or does not
\* validate, an XIP image is not mapped at its image base, the configuration
\* region has the wrong signature, the destination of the module image or the
\* carved stack lies over an entry of the memory map) ends the boot in a halt,
\* not in a reset or a retry: the module is not called, the callback is not
\* run, the cache is not written, and the next step is the next boot.
C16_ValidationErrorHalts ==
  /\ [](log.fault # "none" =>
          /\ pc = "halt"
          /\ calls.full_reset = 0
          /\ calls.fsp_raminit = 0 /\ calls.callback = 0
          /\ calls.lookup = 0 /\ calls.setup_mma = 0
          /\ NoPostInit /\ ~log.stored)
  /\ [][log.fault # "none" =>
          (pc' = "start" /\ mrc_cache' = mrc_cache /\ tpm_hash' = tpm_hash)]_vars
C16_Witness ==
  /\ log.fault = "stack_overlap" /\ pc = "halt"
  /\ mrc_cache.present /\ arch_upd.StackBase.kind = "unset"

\* C17: in do_fsp_post_memory_init the reserved memory of the module is
\* queried before cbmem is initialised or recovered, and when the base of the
\* cbmem entry differs from the base of the reserved memory the boot halts
\* with no training data stored and no hand-off recorded.
C17_BaseMismatchHaltsFirst ==
  /\ pc = "init_cbmem" => (calls.find_reserved = 1 /\ cbmem = "none")
  /\ (cbmem # "none" \/ calls.cbmem_empty + calls.cbmem_recover > 0) =>
       calls.find_reserved = 1
  /\ calls.find_reserved <= 1
  /\ log.base = "mismatch" =>
       /\ pc = "halt"
       /\ calls.stash = 0 /\ calls.update_hash = 0 /\ ~log.stored
       /\ calls.handoff = 0
  /\ (calls.stash > 0 \/ calls.handoff > 0 \/ pc \in {"save_training", "handoff"}) =>
       log.base = "match"
C17_Witness ==
  /\ log.base = "mismatch" /\ pc = "halt" /\ cbmem = "fresh"
  /\ cfg.CACHE_MRC_SETTINGS /\ hob # NULL /\ calls.find_reserved = 1

\* C18: on a resume boot cbmem is recovered and never initialised empty; when
\* the recovery fails under CONFIG(HAVE_ACPI_RESUME) a full reset is issued
\* before the base check, the store and the hand-off; a resume boot whose
\* recovery failed never ends in done and never records a hand-off.
C18_FailedRecoveryNeverDone ==
  /\ s3wake => (calls.cbmem_empty = 0 /\ cbmem # "fresh")
  /\ ~s3wake => (calls.cbmem_recover = 0 /\ cbmem \in {"none", "fresh"})
  /\ (cbmem = "failed" /\ log.acpi_resume) =>
       /\ pc = "reset" /\ calls.full_reset = 1
       /\ log.base = "unchecked"
  /\ cbmem = "failed" =>
       /\ s3wake /\ calls.cbmem_recover = 1
       /\ pc \in {"reset", "cbmem_check", "halt"}
       /\ calls.stash = 0 /\ calls.update_hash = 0 /\ ~log.stored
       /\ calls.handoff = 0
C18_Witness ==
  /\ cbmem = "failed" /\ log.acpi_resume /\ pc = "reset"
  /\ status = "FSP_SUCCESS" /\ arch_upd.NvsBufferPtr # NULL

\* the version tag do_fsp_memory_init derives at line 263
DerivedTag ==
  fsp_memory_settings_version(hdr.fsp_revision,
    cfg.FSP_PLATFORM_MEMORY_SETTINGS_VERSIONS, hdr.board, hdr.soc)

\* C19: in one boot the training cache is looked up at most once and stored at
\* most once; a lookup happens before the module call and a store after a
\* successful module call; the lookup, the platform callback and the store use
\* one version tag, the one derived from the image revision and the hooks,
\* which does not change between them.
C19_OneLookupThenOneStore ==
  /\ [](/\ calls.lookup <= 1 /\ calls.stash <= 1
        /\ (calls.lookup = 1 \/ calls.callback = 1 \/ calls.stash = 1) =>
             fsp_version = DerivedTag
        /\ (log.cache \in {"hit", "verify_failed"} /\ CacheAsLookedUp) =>
             (mrc_cache.present /\ mrc_cache.version = fsp_version)
        /\ (log.cache = "miss" /\ CacheAsLookedUp) =>
             ~(mrc_cache.present /\ mrc_cache.version = fsp_version)
        /\ calls.stash = 1 => (ModuleCalled /\ status = "FSP_SUCCESS")
        /\ log.stored =>
             /\ mrc_cache.present /\ mrc_cache.version = fsp_version
             /\ mrc_cache.payload = hob)
  /\ [][calls'.lookup > calls.lookup =>
          (calls.fsp_raminit = 0 /\ calls.stash = 0)]_vars
  /\ [][calls'.stash > calls.stash =>
          (calls.fsp_raminit = 1 /\ status = "FSP_SUCCESS")]_vars
  /\ [][pc \notin ({"preinit"} \cup Terminal) => fsp_version' = fsp_version]_vars
C19_Witness ==
  /\ pc = "done" /\ calls.lookup = 1 /\ calls.stash = 1 /\ log.stored
  /\ log.cache = "hit" /\ cfg.FSP_PLATFORM_MEMORY_SETTINGS_VERSIONS
  /\ fsp_version # hdr.fsp_revision

\* the range [begin, end) and the entry r overlap as the claim states it
OverlapsEntry(begin, end, r) == begin < r.end /\ end > r.base
\* the stack carved for the StackSize of the image defaults overlaps an entry
\* of the memory map
CarveOverlaps ==
  \E r \in memmap :
    OverlapsEntry(CarvedBegin(arch_upd.StackSize), Layout.car_region_end, r)

\* C20: when the platform shares its stack or the stage does not run from
\* cache-as-RAM, the stack is the scratch buffer temp_ram with its size and the
\* memory map plays no part; otherwise the stack is [car_region_end -
\* StackSize, car_region_end), accepted exactly when no entry of the memory map
\* has begin < entry.end and end > entry.base (a range that only touches an
\* entry is accepted, and the accepted range holds no address of an entry),
\* and an overlap fails the flow and leaves the stack base unset.
C20_StackPlacement ==
  /\ log.stack = "shared" =>
       /\ log.shared \/ ~cfg.ENV_CACHE_AS_RAM
       /\ arch_upd.StackBase = [kind |-> "temp_ram", addr |-> 0]
       /\ arch_upd.StackSize = TempRamSize
       /\ pc = "fill_mrc_cache" /\ log.fault = "none"
  /\ log.stack \in {"carved", "rejected"} =>
       /\ cfg.ENV_CACHE_AS_RAM /\ ~log.shared
       /\ (log.stack = "carved") <=> ~CarveOverlaps
  /\ log.stack = "carved" =>
       /\ arch_upd.StackBase =
            [kind |-> "car", addr |-> CarvedBegin(arch_upd.StackSize)]
       /\ Occupied(memmap, arch_upd.StackBase.addr, Layout.car_region_end) = {}
       /\ pc = "fill_mrc_cache"
  /\ log.stack = "rejected" =>
       /\ arch_upd.StackBase = NoBase
       /\ Occupied(memmap, CarvedBegin(arch_upd.StackSize),
                   Layout.car_region_end) # {}
       /\ pc = "halt" /\ log.fault = "stack_overlap"
  /\ (pc = "fill_mrc_cache" /\ cfg.ENV_CACHE_AS_RAM) =>
       ((log.stack = "shared") <=> log.shared)
\* a stack that begins where an entry of the memory map ends is accepted
C20_Witness ==
  /\ log.stack = "carved"
  /\ \E r \in memmap : r.end = arch_upd.StackBase.addr
  /\ arch_upd.StackSize > 0

\* C21: the hand-off is recorded once in every boot that ends in done and not
\* at all in a boot that ends in reset or halt; it is recorded with the resume
\* flag of the boot, after the base check passed and after
\* save_memory_training_data ran, which on a cold boot with the cache enabled
\* and training data produced has called the store.
C21_HandoffOnceWhenDone ==
  /\ [](/\ calls.handoff <= 1
        /\ pc = "done" => calls.handoff = 1
        /\ pc \in {"reset", "halt"} => (calls.handoff = 0 /\ log.handoff = "none")
        /\ calls.handoff = 0 <=> log.handoff = "none"
        /\ calls.handoff = 1 =>
             /\ log.handoff = (IF s3wake THEN "resume" ELSE "cold")
             /\ log.base = "match"
             /\ calls.save = 1
             /\ (~s3wake /\ cfg.CACHE_MRC_SETTINGS /\ hob # NULL) => calls.stash = 1)
  /\ [][calls'.handoff > calls.handoff =>
          (log.base = "match" /\ calls.save = 1 /\ pc' = "done")]_vars
  /\ [][(calls.handoff = 1 /\ pc \notin Terminal) =>
          (calls'.stash = calls.stash /\ calls'.save = calls.save)]_vars
C21_Witness ==
  /\ pc = "done" /\ s3wake /\ calls.handoff = 1 /\ log.handoff = "resume"
  /\ log.base = "match" /\ calls.save = 1 /\ calls.stash = 0

\* C22 as claimed: a stack accepted on the carved-stack path lies inside the
\* cache-as-RAM window [car_region_start, car_region_end) with stack_begin <=
\* stack_end, for every StackSize of the address width, also one for which
\* car_region_end - StackSize wraps.
C22_CarvedStackInsideWindow ==
  log.stack = "carved" =>
    /\ arch_upd.StackBase.kind = "car"
    /\ Layout.car_region_start <= arch_upd.StackBase.addr
    /\ arch_upd.StackBase.addr <= Layout.car_region_end
    /\ arch_upd.StackBase.addr + arch_upd.StackSize = Layout.car_region_end

====
